---- MODULE Spec2Model ----
(***************************************************************************)
(* minio_monitor: the batch report (main.py), the metrics viewer (app.py)  *)
(* and the standalone quota check (manual_test/quota.py), over one MinIO   *)
(* backend.                                                                *)
(*                                                                         *)
(* Strings are sequences of one-character strings, so that splitting,      *)
(* quoting, parsing and ordering are computed character by character.      *)
(* Sizes are counted in units of 1024**2 bytes (TLC's integers are 32 bit  *)
(* and the quota is 250 * 1024**3 bytes): every object of a listing has a  *)
(* whole number of units, str(size_bytes) is rendered in bytes by a digit  *)
(* multiplication, and the floats size/1024**2 and size/1024**3 are the    *)
(* exact rationals size/1 and size/1024, which is what the doubles hold.   *)
(***************************************************************************)
EXTENDS Integers, Sequences, FiniteSets, TLC

(***************************************************************************)
(* Bounds of the model.                                                    *)
(***************************************************************************)
MaxRuns == 2
MaxDuration == 1

(***************************************************************************)
(* Program constants.                                                      *)
(***************************************************************************)
BytesPerUnit == 1048576
UnitsPerGB == 1024
QUOTA_GB == 250
MaxLimit == 20
DefaultLimit == 5

(***************************************************************************)
(* Characters and strings.                                                 *)
(***************************************************************************)
Printable ==
  << " ", "!", "\"", "#", "$", "%", "&", "'", "(", ")", "*", "+", ",", "-",
     ".", "/", "0", "1", "2", "3", "4", "5", "6", "7", "8", "9", ":", ";",
     "<", "=", ">", "?", "@", "A", "B", "C", "D", "E", "F", "G", "H", "I",
     "J", "K", "L", "M", "N", "O", "P", "Q", "R", "S", "T", "U", "V", "W",
     "X", "Y", "Z", "[", "(backslash)", "]", "^", "_", "(backquote)", "a",
     "b", "c", "d", "e",
     "f", "g", "h", "i", "j", "k", "l", "m", "n", "o", "p", "q", "r", "s",
     "t", "u", "v", "w", "x", "y", "z", "{", "|", "}", "~" >>

\* The code point of a character.
Code(c) ==
  IF c = "\n" THEN 10
  ELSE IF c = "\r" THEN 13
  ELSE 31 + (CHOOSE i \in 1..Len(Printable) : Printable[i] = c)

DigitChar(d) == Printable[17 + d]

DigitVal(c) == Code(c) - 48

\* Python's str < str: by code point, a proper prefix first.
RECURSIVE StrLess(_, _)
StrLess(a, b) ==
  IF b = << >> THEN FALSE
  ELSE IF a = << >> THEN TRUE
  ELSE IF Head(a) # Head(b) THEN Code(Head(a)) < Code(Head(b))
  ELSE StrLess(Tail(a), Tail(b))

StartsWith(s, p) == Len(s) >= Len(p) /\ SubSeq(s, 1, Len(p)) = p

EndsWith(s, p) ==
  Len(s) >= Len(p) /\ SubSeq(s, Len(s) - Len(p) + 1, Len(s)) = p

Contains(s, c) == \E i \in 1..Len(s) : s[i] = c

\* str(n) of a natural number.
RECURSIVE Digits(_)
Digits(n) ==
  IF n < 10 THEN << DigitChar(n) >>
  ELSE Digits(n \div 10) \o << DigitChar(n % 10) >>

\* n zero-padded to w digits (strftime's %m, %d, and the digits of .2f).
RECURSIVE Pad(_, _)
Pad(n, w) ==
  IF w <= 1 THEN Digits(n)
  ELSE Pad(n \div 10, w - 1) \o << DigitChar(n % 10) >>

\* The digits of (ds as a number) * k + carry, for a digit string ds.
RECURSIVE MulDigits(_, _, _)
MulDigits(ds, k, carry) ==
  IF ds = << >> THEN (IF carry = 0 THEN << >> ELSE Digits(carry))
  ELSE LET v == DigitVal(ds[Len(ds)]) * k + carry
       IN MulDigits(SubSeq(ds, 1, Len(ds) - 1), k, v \div 10)
            \o << DigitChar(v % 10) >>

\* str.split(sep): the pieces between the separators, empty ones included.
RECURSIVE Split(_, _)
Split(s, sep) ==
  IF ~Contains(s, sep) THEN << s >>
  ELSE LET i == CHOOSE j \in 1..Len(s) :
                  s[j] = sep /\ \A k \in 1..(j - 1) : s[k] # sep
       IN << SubSeq(s, 1, i - 1) >> \o Split(SubSeq(s, i + 1, Len(s)), sep)

\* sorted() of a set of strings.
RECURSIVE SortedStrings(_)
SortedStrings(S) ==
  IF S = {} THEN << >>
  ELSE LET m == CHOOSE x \in S : \A y \in S : y = x \/ StrLess(x, y)
       IN << m >> \o SortedStrings(S \ {m})

(***************************************************************************)
(* Sizes and their renderings (main.py).                                   *)
(***************************************************************************)
\* f"{num/den:.2f}": the exact quotient rounded to hundredths, ties to even.
Fixed2(num, den) ==
  LET q == (num * 100) \div den
      r == (num * 100) % den
      h == IF 2 * r > den THEN q + 1
           ELSE IF 2 * r = den THEN q + (q % 2)
           ELSE q
  IN Digits(h \div 100) \o << "." >> \o Pad(h % 100, 2)

format_size(size_bytes) ==
  IF size_bytes >= UnitsPerGB
    THEN Fixed2(size_bytes, UnitsPerGB) \o << " ", "G", "B" >>
    ELSE Fixed2(size_bytes, 1) \o << " ", "M", "B" >>

\* str(size_bytes): the byte count.
StrBytes(size) == MulDigits(Digits(size), BytesPerUnit, 0)

\* repr(size / 1024**2): a whole float.
ReprMb(size) == Digits(size) \o << ".", "0" >>

\* The decimals of r/1024, 0 < r < 1024: a finite expansion of at most 10 digits.
RECURSIVE FracDigits(_)
FracDigits(r) ==
  IF r = 0 THEN << >>
  ELSE << DigitChar((r * 10) \div UnitsPerGB) >>
         \o FracDigits((r * 10) % UnitsPerGB)

\* repr(size / 1024**3): the shortest decimal that reads back as the double,
\* which for n/1024 (at most 16 significant digits) is its exact expansion.
ReprGb(size) ==
  Digits(size \div UnitsPerGB) \o << "." >>
    \o (IF size % UnitsPerGB = 0 THEN << "0" >>
        ELSE FracDigits(size % UnitsPerGB))

\* float(s) for s = "I.F", as the number of 1/1024 it denotes; -1 for a
\* string float() rejects or whose value is no multiple of 1/1024.
RECURSIVE ParseFrac(_)
ParseFrac(ds) ==
  IF ds = << >> THEN 0
  ELSE LET r == ParseFrac(Tail(ds))
       IN IF r < 0 \/ (DigitVal(Head(ds)) * UnitsPerGB + r) % 10 # 0 THEN -1
          ELSE (DigitVal(Head(ds)) * UnitsPerGB + r) \div 10

RECURSIVE ParseNat(_, _)
ParseNat(ds, acc) ==
  IF ds = << >> THEN acc
  ELSE ParseNat(Tail(ds), acc * 10 + DigitVal(Head(ds)))

IsDigits(ds) ==
  ds # << >> /\ \A i \in 1..Len(ds) : DigitVal(ds[i]) \in 0..9

ParseFloat(s) ==
  LET parts == Split(s, ".")
  IN IF Len(parts) = 2 /\ IsDigits(parts[1]) /\ IsDigits(parts[2])
       THEN LET f == ParseFrac(parts[2])
            IN IF f < 0 THEN -1
               ELSE ParseNat(parts[1], 0) * UnitsPerGB + f
     ELSE IF Len(parts) = 1 /\ IsDigits(parts[1])
       THEN ParseNat(parts[1], 0) * UnitsPerGB
     ELSE -1

(***************************************************************************)
(* Floats of the rows: the exact value num/den of the double.              *)
(***************************************************************************)
Float(num, den) == [num |-> num, den |-> den]

\* repr(x), for the two divisors the rows use.
ReprFloat(x) == IF x.den = 1 THEN ReprMb(x.num) ELSE ReprGb(x.num)

(***************************************************************************)
(* The csv module, excel dialect: csv.DictWriter (main.py) and             *)
(* csv.DictReader (app.py, quota.py).                                      *)
(***************************************************************************)
fieldnames ==
  << << "p", "a", "t", "h" >>,
     << "s", "i", "z", "e", "_", "b", "y", "t", "e", "s" >>,
     << "s", "i", "z", "e", "_", "m", "b" >>,
     << "s", "i", "z", "e", "_", "g", "b" >>,
     << "s", "i", "z", "e", "_", "h", "u", "m", "a", "n" >> >>

\* QUOTE_MINIMAL: a field is quoted when it holds the delimiter, the quote
\* character or a character of the line terminator.
NeedsQuote(f) == \E i \in 1..Len(f) : f[i] \in {",", "\"", "\r", "\n"}

RECURSIVE DoubleQuotes(_)
DoubleQuotes(f) ==
  IF f = << >> THEN << >>
  ELSE (IF Head(f) = "\"" THEN << "\"", "\"" >> ELSE << Head(f) >>)
         \o DoubleQuotes(Tail(f))

\* As QuoteField, without doubling the quote characters of the field.
QuoteFieldUndoubled(f) ==
  IF NeedsQuote(f) THEN << "\"" >> \o f \o << "\"" >> ELSE f

QuoteField(f) ==
  IF NeedsQuote(f) THEN << "\"" >> \o DoubleQuotes(f) \o << "\"" >> ELSE f

RECURSIVE JoinFields(_)
JoinFields(fs) ==
  IF fs = << >> THEN << >>
  ELSE IF Len(fs) = 1 THEN QuoteField(fs[1])
  ELSE QuoteField(fs[1]) \o << "," >> \o JoinFields(Tail(fs))

\* writer.writerow: a lone empty field is written quoted; the terminator is \r\n.
WriteRow(fs) ==
  (IF fs = << << >> >> THEN << "\"", "\"" >> ELSE JoinFields(fs))
    \o << "\r", "\n" >>

\* DictWriter.writerow(row): the values in fieldnames order, each through
\* str() (repr for a float).
RowFields(row) ==
  << row.path, StrBytes(row.size_bytes), ReprFloat(row.size_mb),
     ReprFloat(row.size_gb), row.size_human >>

RECURSIVE WriteRows(_)
WriteRows(rows) ==
  IF rows = << >> THEN << >>
  ELSE WriteRow(RowFields(Head(rows))) \o WriteRows(Tail(rows))

\* The reader is fed the lines of io.StringIO(text): each ends at "\n", and
\* after each the parser is given the end-of-line marker.
EOL == "(EOL)"

\* The concatenation of ss[lo..hi], halving (the texts are a few hundred
\* characters long).
RECURSIVE Flatten(_, _, _)
Flatten(ss, lo, hi) ==
  IF lo > hi THEN << >>
  ELSE IF lo = hi THEN ss[lo]
  ELSE Flatten(ss, lo, (lo + hi) \div 2)
         \o Flatten(ss, (lo + hi) \div 2 + 1, hi)

WithEOL(s) ==
  Flatten([i \in 1..Len(s) |->
             IF s[i] = "\n" \/ i = Len(s) THEN << s[i], EOL >>
             ELSE << s[i] >>], 1, Len(s))

\* _csv.c parse_process_char: the parser p = [st, fld, rec, recs] (its state,
\* the open field, the open record, the records returned) after character c.
ParseChar(p, c) ==
  LET nl == c \in {"\n", "\r"}
      after == IF c = EOL THEN "START_RECORD" ELSE "EAT_CRNL"
      \* parse_save_field, and at the end of a line the record is returned
      save(f) == IF c = EOL
                   THEN [st |-> after, fld |-> << >>, rec |-> << >>,
                         recs |-> Append(p.recs, Append(p.rec, f))]
                   ELSE [p EXCEPT !.st = after, !.fld = << >>,
                                  !.rec = Append(p.rec, f)]
      start == p.st \in {"START_RECORD", "START_FIELD"}
  IN
  CASE p.st = "ERROR" -> p
    [] p.st = "START_RECORD" /\ c = EOL ->
         [p EXCEPT !.recs = Append(p.recs, << >>)]
    [] p.st = "START_RECORD" /\ nl -> [p EXCEPT !.st = "EAT_CRNL"]
    [] p.st = "START_FIELD" /\ (nl \/ c = EOL) -> save(<< >>)
    [] start /\ c = "\"" -> [p EXCEPT !.st = "IN_QUOTED_FIELD"]
    [] start /\ c = "," ->
         [p EXCEPT !.st = "START_FIELD", !.rec = Append(p.rec, << >>)]
    [] start /\ ~nl /\ c # EOL /\ c # "\"" /\ c # "," ->
         [p EXCEPT !.st = "IN_FIELD", !.fld = << c >>]
    [] p.st = "IN_FIELD" /\ (nl \/ c = EOL) -> save(p.fld)
    [] p.st = "IN_FIELD" /\ c = "," ->
         [p EXCEPT !.st = "START_FIELD", !.fld = << >>,
                   !.rec = Append(p.rec, p.fld)]
    [] p.st = "IN_FIELD" /\ ~nl /\ c # EOL /\ c # "," ->
         [p EXCEPT !.fld = Append(p.fld, c)]
    [] p.st = "IN_QUOTED_FIELD" /\ c = EOL -> p
    [] p.st = "IN_QUOTED_FIELD" /\ c = "\"" ->
         [p EXCEPT !.st = "QUOTE_IN_QUOTED_FIELD"]
    [] p.st = "IN_QUOTED_FIELD" /\ c # EOL /\ c # "\"" ->
         [p EXCEPT !.fld = Append(p.fld, c)]
    [] p.st = "QUOTE_IN_QUOTED_FIELD" /\ c = "\"" ->
         [p EXCEPT !.st = "IN_QUOTED_FIELD", !.fld = Append(p.fld, c)]
    [] p.st = "QUOTE_IN_QUOTED_FIELD" /\ c = "," ->
         [p EXCEPT !.st = "START_FIELD", !.fld = << >>,
                   !.rec = Append(p.rec, p.fld)]
    [] p.st = "QUOTE_IN_QUOTED_FIELD" /\ (nl \/ c = EOL) -> save(p.fld)
    [] p.st = "QUOTE_IN_QUOTED_FIELD" /\ ~nl /\ c # EOL /\ c # "\""
         /\ c # "," ->
         [p EXCEPT !.st = "IN_FIELD", !.fld = Append(p.fld, c)]
    [] p.st = "EAT_CRNL" /\ nl -> p
    [] p.st = "EAT_CRNL" /\ c = EOL ->
         [st |-> "START_RECORD", fld |-> << >>, rec |-> << >>,
          recs |-> Append(p.recs, p.rec)]
    [] p.st = "EAT_CRNL" /\ ~nl /\ c # EOL -> [p EXCEPT !.st = "ERROR"]

\* The parser after s[lo..hi], halving.
RECURSIVE ParseRange(_, _, _, _)
ParseRange(s, lo, hi, p) ==
  IF lo > hi THEN p
  ELSE IF lo = hi THEN ParseChar(p, s[lo])
  ELSE LET q == ParseRange(s, lo, (lo + hi) \div 2, p)
       IN IF q.st = "ERROR" THEN q
          ELSE ParseRange(s, (lo + hi) \div 2 + 1, hi, q)

CsvError == << << << "(csv.Error)" >> >> >>

\* list(csv.reader(io.StringIO(text))): the records, or CsvError. Input that
\* ends inside a quoted field returns the open record.
csv_reader(text) ==
  LET s == WithEOL(text)
      p == ParseRange(s, 1, Len(s),
                      [st |-> "START_RECORD", fld |-> << >>, rec |-> << >>,
                       recs |-> << >>])
  IN IF p.st = "ERROR" THEN CsvError
     ELSE IF p.st = "IN_QUOTED_FIELD" THEN Append(p.recs, Append(p.rec, p.fld))
     ELSE p.recs

\* None, as a key (restkey) and as a value (restval).
None == << "(None)" >>

\* dict(zip(names, rec)) with DictReader's restkey and restval.
MakeDict(names, rec) ==
  LET keys == {names[i] : i \in 1..Len(names)}
                 \cup (IF Len(rec) > Len(names) THEN {None} ELSE {})
  IN [k \in keys |->
        IF k = None /\ Len(rec) > Len(names)
             /\ ~\E i \in 1..Len(names) : names[i] = k
          THEN SubSeq(rec, Len(names) + 1, Len(rec))
        ELSE LET hits == {i \in 1..Len(names) : names[i] = k /\ i <= Len(rec)}
             IN IF hits = {} THEN None
                ELSE rec[CHOOSE i \in hits : \A j \in hits : j <= i]]

RECURSIVE DictRows(_, _)
DictRows(names, recs) ==
  IF recs = << >> THEN << >>
  ELSE IF Head(recs) = << >> THEN DictRows(names, Tail(recs))
  ELSE << MakeDict(names, Head(recs)) >> \o DictRows(names, Tail(recs))

\* list(csv.DictReader(io.StringIO(text))): the first record names the
\* fields, blank records are skipped.
DictReader(text) ==
  LET recs == csv_reader(text)
  IN IF recs = CsvError THEN CsvError
     ELSE IF recs = << >> THEN << >>
     ELSE DictRows(Head(recs), Tail(recs))

(***************************************************************************)
(* Names.                                                                  *)
(***************************************************************************)
bucket_name == << "c", "d", "m", "-", "l", "a", "k", "e" >>

metrics_prefix == << "m", "e", "t", "r", "i", "c", "s", "/" >>

csv_suffix == << ".", "c", "s", "v" >>

\* list_buckets(): the buckets of the deployment, in the backend's order.
Buckets == << << "b" >>, bucket_name >>

(***************************************************************************)
(* The objects the recursive listings of main.py return. A listing is a    *)
(* sequence of records [object_name, size] in key order, one per key.      *)
(***************************************************************************)
ObjKeys ==
  { << "a", "/", "a" >>,
    << "a", "/", "b", "/", "c" >>,
    << "a", "/", "b", "/", "d" >>,
    << "r", ",", "\"" >> }

\* 1 unit, 125 GB, and one unit more than 250 GB.
Sizes == {1, 128000, 256001}

ListingOf(f) ==
  LET names == SortedStrings(DOMAIN f)
  IN [i \in 1..Len(names) |-> [object_name |-> names[i], size |-> f[names[i]]]]

AllListings ==
  UNION {{ListingOf(f) : f \in [S -> Sizes]} : S \in SUBSET ObjKeys}

ListingA ==
  ListingOf((<< "a", "/", "b", "/", "c" >> :> 128000)
            @@ (<< "a", "/", "b", "/", "d" >> :> 128000))

ListingB ==
  ListingOf((<< "a", "/", "a" >> :> 256001)
            @@ (<< "a", "/", "b", "/", "c" >> :> 256001)
            @@ (<< "a", "/", "b", "/", "d" >> :> 1)
            @@ (<< "r", ",", "\"" >> :> 1))

\* The listings the system specification draws from.
FewListings == {ListingA, ListingB}

TotalListings == {ListingB}

(***************************************************************************)
(* main.py: the aggregation.                                               *)
(***************************************************************************)
\* Lines 43-45: bucket_size over one recursive listing.
RECURSIVE SumSizes(_)
SumSizes(listing) ==
  IF listing = << >> THEN 0
  ELSE Head(listing).size + SumSizes(Tail(listing))

\* Lines 46-50.
BucketRow(name, bucket_size) ==
  [path |-> name, size_bytes |-> bucket_size,
   size_human |-> format_size(bucket_size)]

\* Lines 59-63 and 69-73.
two_level_path(object_name) ==
  LET parts == Split(object_name, "/")
  IN IF Len(parts) >= 2 THEN parts[1] \o << "/" >> \o parts[2]
     ELSE parts[1]

\* Lines 57-64: the first pass.
CollectPaths(listing) ==
  {two_level_path(listing[i].object_name) : i \in 1..Len(listing)}

\* As AddSize, were the sizes summed in one pass: a path the first pass did
\* not see gets a row.
AddSizeOnePass(sizes, obj) ==
  LET k == two_level_path(obj.object_name)
  IN IF k \in DOMAIN sizes THEN [sizes EXCEPT ![k] = @ + obj.size]
     ELSE (k :> obj.size) @@ sizes

\* Lines 75-76: one object of the second pass.
AddSize(sizes, obj) ==
  LET k == two_level_path(obj.object_name)
  IN IF k \in DOMAIN sizes THEN [sizes EXCEPT ![k] = @ + obj.size]
     ELSE sizes

\* Lines 67-76: the second pass.
RECURSIVE AddSizes(_, _)
AddSizes(sizes, listing) ==
  IF listing = << >> THEN sizes
  ELSE AddSizes(AddSize(sizes, Head(listing)), Tail(listing))

\* Lines 84-92: one row per path, in sorted order.
PathRows(sizes) ==
  LET paths == SortedStrings(DOMAIN sizes)
  IN [i \in 1..Len(paths) |->
        [path |-> bucket_name \o << "/" >> \o paths[i],
         size_bytes |-> sizes[paths[i]],
         size_mb |-> Float(sizes[paths[i]], 1),
         size_gb |-> Float(sizes[paths[i]], UnitsPerGB),
         size_human |-> format_size(sizes[paths[i]])]]

\* Lines 104-110: the row written for a bucket.
BucketCsvRow(b) ==
  [path |-> b.path, size_bytes |-> b.size_bytes,
   size_mb |-> Float(b.size_bytes, 1),
   size_gb |-> Float(b.size_bytes, UnitsPerGB),
   size_human |-> b.size_human]

\* Lines 96-114: the text of the csv buffer.
CsvText(bdata, pdata) ==
  WriteRow(fieldnames)
    \o WriteRows([i \in 1..Len(bdata) |-> BucketCsvRow(bdata[i])])
    \o WriteRows(pdata)

\* Line 128: strftime("%Y-%m-%d") on day d of January 2026.
datestamp(d) == << "2", "0", "2", "6", "-", "0", "1", "-" >> \o Pad(d, 2)

\* Line 130.
MinioPath(d, seconds) ==
  metrics_prefix \o datestamp(d) \o << "_" >> \o Digits(seconds)
    \o << "s" >> \o csv_suffix

(***************************************************************************)
(* The quota check (main.py 145-171, quota.py 47-75).                      *)
(***************************************************************************)
\* As OverQuota, with >= for >.
OverQuotaInclusive(x) == x.num >= QUOTA_GB * x.den

\* x > QUOTA_GB for a float x.
OverQuota(x) == x.num > QUOTA_GB * x.den

\* Live, lines 149-159 of main.py.
RECURSIVE LiveOverQuota(_)
LiveOverQuota(pdata) ==
  IF pdata = << >> THEN << >>
  ELSE LET row == Head(pdata)
       IN (IF ~Contains(row.path, "/") THEN << >>
           ELSE IF OverQuota(row.size_gb)
             THEN << [path |-> row.path, size_gb |-> row.size_gb,
                      size_human |-> row.size_human] >>
           ELSE << >>)
          \o LiveOverQuota(Tail(pdata))

size_gb_field == fieldnames[4]

path_field == fieldnames[1]

size_human_field == fieldnames[5]

\* Stored, lines 50-63 of quota.py, over the dicts of the DictReader.
RECURSIVE StoredOverQuota(_)
StoredOverQuota(rows) ==
  IF rows = << >> THEN << >>
  ELSE LET row == Head(rows)
           size_gb == Float(ParseFloat(row[size_gb_field]), UnitsPerGB)
       IN (IF ~Contains(row[path_field], "/") THEN << >>
           ELSE IF OverQuota(size_gb)
             THEN << [path |-> row[path_field], size_gb |-> size_gb,
                      size_human |-> row[size_human_field]] >>
           ELSE << >>)
          \o StoredOverQuota(Tail(rows))

\* sorted(items, key=size_gb, reverse=True): stable, equal keys keep their order.
RECURSIVE InsertDesc(_, _)
InsertDesc(sorted, item) ==
  IF sorted = << >> THEN << item >>
  ELSE IF item.size_gb.num > Head(sorted).size_gb.num
    THEN << item >> \o sorted
  ELSE << Head(sorted) >> \o InsertDesc(Tail(sorted), item)

RECURSIVE SortDesc(_, _)
SortDesc(items, acc) ==
  IF items = << >> THEN acc
  ELSE SortDesc(Tail(items), InsertDesc(acc, Head(items)))

\* The lines of the report: the items in descending size with their overage.
Report(items) ==
  LET sorted == SortDesc(items, << >>)
  IN [i \in 1..Len(sorted) |->
        [path |-> sorted[i].path, size_human |-> sorted[i].size_human,
         overage |-> Float(sorted[i].size_gb.num
                             - QUOTA_GB * sorted[i].size_gb.den,
                           sorted[i].size_gb.den)]]

(***************************************************************************)
(* The backend: the objects of cdm-lake that the viewer and the standalone *)
(* check read, a function from key to [content, last_modified].            *)
(* last_modified counts half seconds.                                      *)
(***************************************************************************)
\* A byte that is no UTF-8.
BadByte == "(0xff)"

\* Objects that other clients of the bucket have put.
NestedCsv ==
  metrics_prefix \o << "o", "/", "x" >> \o csv_suffix

NotCsv == metrics_prefix \o << "n" >>

OutsideCsv == << "a" >> \o csv_suffix

ForeignContent ==
  (NestedCsv :> << "a", "\r", "b" >>)
    @@ (NotCsv :> << BadByte >>)
    @@ (OutsideCsv :> << "x" >>)

ForeignKeys == DOMAIN ForeignContent

\* A name no object has.
MissingName == metrics_prefix \o << "z" >> \o csv_suffix

\* put_object: the whole object is replaced and stamped with the time t.
PutObject(objects, key, content, t) ==
  (key :> [content |-> content, last_modified |-> t]) @@ objects

\* list_objects(bucket, prefix=prefix), not recursive: the keys under the
\* prefix, those with a further "/" folded into one entry for their directory.
EntryName(key, prefix) ==
  LET rest == SubSeq(key, Len(prefix) + 1, Len(key))
  IN IF Contains(rest, "/")
       THEN prefix \o Split(rest, "/")[1] \o << "/" >>
       ELSE key

list_objects(objects, prefix) ==
  LET names == SortedStrings({EntryName(k, prefix) :
                                k \in {x \in DOMAIN objects :
                                         StartsWith(x, prefix)}})
  IN [i \in 1..Len(names) |->
        IF names[i] \in DOMAIN objects
          THEN [object_name |-> names[i], is_dir |-> FALSE,
                last_modified |-> objects[names[i]].last_modified,
                size |-> Len(objects[names[i]].content)]
          ELSE [object_name |-> names[i], is_dir |-> TRUE,
                last_modified |-> -1, size |-> 0]]

\* Half seconds in a day; the time t is day 1 + t \div TicksPerDay of
\* January 2026.
TicksPerDay == 2 * 86400

DayOf(t) == 1 + t \div TicksPerDay

\* datetime.isoformat() of a UTC time: the fraction is left out when it is 0.
isoformat(t) ==
  LET secs == (t % TicksPerDay) \div 2
  IN << "2", "0", "2", "6", "-", "0", "1", "-" >> \o Pad(DayOf(t), 2)
       \o << "T" >> \o Pad(secs \div 3600, 2)
       \o << ":" >> \o Pad((secs % 3600) \div 60, 2)
       \o << ":" >> \o Pad(secs % 60, 2)
       \o (IF t % 2 = 0 THEN << >>
           ELSE << ".", "5", "0", "0", "0", "0", "0" >>)
       \o << "+", "0", "0", ":", "0", "0" >>

\* bytes.decode('utf-8'): fails on a byte that is no UTF-8.
Decodable(content) == \A i \in 1..Len(content) : content[i] # BadByte

(***************************************************************************)
(* app.py: the viewer.                                                     *)
(***************************************************************************)
\* Lines 42-49.
RECURSIVE CsvFiles(_)
CsvFiles(entries) ==
  IF entries = << >> THEN << >>
  ELSE (IF EndsWith(Head(entries).object_name, csv_suffix)
          THEN << [name |-> Head(entries).object_name,
                   last_modified |-> isoformat(Head(entries).last_modified),
                   size |-> Head(entries).size] >>
          ELSE << >>)
       \o CsvFiles(Tail(entries))

\* As InsertRecent, without reverse=True.
RECURSIVE InsertOldest(_, _)
InsertOldest(sorted, f) ==
  IF sorted = << >> THEN << f >>
  ELSE IF StrLess(f.last_modified, Head(sorted).last_modified)
    THEN << f >> \o sorted
  ELSE << Head(sorted) >> \o InsertOldest(Tail(sorted), f)

\* list.sort(key=last_modified, reverse=True) on the isoformat strings: stable.
RECURSIVE InsertRecent(_, _)
InsertRecent(sorted, f) ==
  IF sorted = << >> THEN << f >>
  ELSE IF StrLess(Head(sorted).last_modified, f.last_modified)
    THEN << f >> \o sorted
  ELSE << Head(sorted) >> \o InsertRecent(Tail(sorted), f)

RECURSIVE SortRecent(_, _)
SortRecent(files, acc) ==
  IF files = << >> THEN acc
  ELSE SortRecent(Tail(files), InsertRecent(acc, Head(files)))

\* Lines 36-52.
get_metrics_files(objects, limit) ==
  LET files == SortRecent(CsvFiles(list_objects(objects, metrics_prefix)),
                          << >>)
  IN SubSeq(files, 1, IF limit < Len(files) THEN limit ELSE Len(files))

\* Lines 55-66: the rows, or the exception raised.
read_csv_from_minio(objects, object_name) ==
  IF object_name \notin DOMAIN objects
    THEN [raised |-> "S3Error", rows |-> << >>]
  ELSE IF ~Decodable(objects[object_name].content)
    THEN [raised |-> "UnicodeDecodeError", rows |-> << >>]
  ELSE LET rows == DictReader(objects[object_name].content)
       IN IF rows = CsvError THEN [raised |-> "csv.Error", rows |-> << >>]
          ELSE [raised |-> "no", rows |-> rows]

\* Lines 75-84: the response to GET /api/csv?file=...
get_csv(objects, file) ==
  IF file = << >>
    THEN [status |-> 400, detail |-> "No file specified", rows |-> << >>]
  ELSE LET r == read_csv_from_minio(objects, file)
       IN IF r.raised = "no"
            THEN [status |-> 200, detail |-> "", rows |-> r.rows]
            ELSE [status |-> 500, detail |-> r.raised, rows |-> << >>]

(***************************************************************************)
(* manual_test/quota.py: the standalone check.                             *)
(***************************************************************************)
\* Lines 24-27.
RECURSIVE MetricsFiles(_)
MetricsFiles(entries) ==
  IF entries = << >> THEN << >>
  ELSE (IF EndsWith(Head(entries).object_name, csv_suffix)
          THEN << Head(entries) >> ELSE << >>)
       \o MetricsFiles(Tail(entries))

\* As MaxModified, with min for max.
RECURSIVE MinModified(_, _)
MinModified(files, best) ==
  IF files = << >> THEN best
  ELSE MinModified(Tail(files),
                   IF Head(files).last_modified < best.last_modified
                     THEN Head(files) ELSE best)

\* Line 34: max(files, key=last_modified), the first of the largest.
RECURSIVE MaxModified(_, _)
MaxModified(files, best) ==
  IF files = << >> THEN best
  ELSE MaxModified(Tail(files),
                   IF Head(files).last_modified > best.last_modified
                     THEN Head(files) ELSE best)

latest_file(files) == MaxModified(Tail(files), Head(files))

\* Every row has the fields the loop reads, and size_gb reads as a float.
Readable(rows) ==
  \A i \in 1..Len(rows) :
    /\ path_field \in DOMAIN rows[i]
    /\ rows[i][path_field] # None
    /\ Contains(rows[i][path_field], "/") =>
         /\ size_gb_field \in DOMAIN rows[i]
         /\ size_human_field \in DOMAIN rows[i]
         /\ rows[i][size_gb_field] # None
         /\ ParseFloat(rows[i][size_gb_field]) >= 0

\* Lines 23-78: the outcome of the script up to its report.
StandaloneCheck(objects) ==
  LET files == MetricsFiles(list_objects(objects, metrics_prefix))
      latest == latest_file(files).object_name
      r == read_csv_from_minio(objects, latest)
  IN IF files = << >>
       THEN [outcome |-> "exit 1", latest |-> << >>, report |-> << >>]
     ELSE IF r.raised # "no" \/ ~Readable(r.rows)
       THEN [outcome |-> "raised", latest |-> latest, report |-> << >>]
     ELSE [outcome |-> "report", latest |-> latest,
           report |-> Report(StoredOverQuota(r.rows))]

(***************************************************************************)
(* State.                                                                  *)
(***************************************************************************)
VARIABLES
  store,            \* the backend's objects of cdm-lake read by key
  now,              \* the backend's clock, in half seconds
  local_file,       \* minio_sizes.csv: << "absent" >> or << "text", text >>
  runs,             \* batch runs started
  pc,               \* where the batch run is
  error,            \* what ended the run, "none" while it runs
  buckets,          \* main.py: the buckets listed
  bucket_data,      \* main.py: bucket_data
  listing1,         \* what the first pass was given by the backend
  listing2,         \* what the second pass was given by the backend
  two_level_paths,  \* main.py: two_level_paths
  path_sizes,       \* main.py: path_sizes
  path_data,        \* main.py: path_data
  csv_buffer,       \* main.py: csv_buffer.getvalue()
  runtime_seconds,  \* main.py: runtime_seconds
  minio_path,       \* main.py: minio_path
  over_quota,       \* main.py: over_quota
  report,           \* main.py: the lines of the quota report
  notified,         \* "no", "posted" or "logged"
  start_store,      \* store when the run started
  start_local,      \* local_file when the run started
  history,          \* per run that reported: its snapshot and its report
  resp              \* the response a client of the backend is being given

runvars ==
  << buckets, bucket_data, listing1, listing2, two_level_paths, path_sizes,
     path_data, csv_buffer, runtime_seconds, minio_path, over_quota, report,
     notified >>

vars ==
  << store, now, local_file, runs, pc, error, runvars, start_store,
     start_local, history, resp >>

NoResp == [kind |-> "none"]

Init ==
  /\ store = [k \in ForeignKeys |->
                [content |-> ForeignContent[k], last_modified |-> 0]]
  /\ now = 0
  /\ local_file = << "absent" >>
  /\ runs = 0
  /\ pc = "idle"
  /\ error = "none"
  /\ buckets = << >>
  /\ bucket_data = << >>
  /\ listing1 = << >>
  /\ listing2 = << >>
  /\ two_level_paths = {}
  /\ path_sizes = << >>
  /\ path_data = << >>
  /\ csv_buffer = << >>
  /\ runtime_seconds = 0
  /\ minio_path = << >>
  /\ over_quota = << >>
  /\ report = << >>
  /\ notified = "no"
  /\ start_store = store
  /\ start_local = local_file
  /\ history = << >>
  /\ resp = NoResp

\* No batch process is running.
AtRest == pc \in {"idle", "done", "aborted"}

\* No client is being answered.
Quiet == resp = NoResp

(***************************************************************************)
(* main.py, one step per backend call or block of the script.              *)
(***************************************************************************)
\* The script is started (lines 13-38).
Start(maxRuns) ==
  /\ AtRest /\ Quiet
  /\ runs < maxRuns
  /\ runs' = runs + 1
  /\ pc' = "list_buckets"
  /\ error' = "none"
  /\ buckets' = << >>
  /\ bucket_data' = << >>
  /\ listing1' = << >>
  /\ listing2' = << >>
  /\ two_level_paths' = {}
  /\ path_sizes' = << >>
  /\ path_data' = << >>
  /\ csv_buffer' = << >>
  /\ runtime_seconds' = 0
  /\ minio_path' = << >>
  /\ over_quota' = << >>
  /\ report' = << >>
  /\ notified' = "no"
  /\ start_store' = store
  /\ start_local' = local_file
  /\ UNCHANGED << store, now, local_file, history, resp >>

\* The process ends: its variables are gone, its log and exit status stay.
Exit ==
  /\ buckets' = << >>
  /\ bucket_data' = << >>
  /\ listing1' = << >>
  /\ listing2' = << >>
  /\ two_level_paths' = {}
  /\ path_sizes' = << >>
  /\ path_data' = << >>
  /\ csv_buffer' = << >>
  /\ runtime_seconds' = 0
  /\ minio_path' = << >>
  /\ over_quota' = << >>
  /\ report' = << >>

\* An exception nothing catches ends the script.
Raise(at, what) ==
  /\ pc = at
  /\ pc' = "aborted"
  /\ error' = what
  /\ Exit
  /\ UNCHANGED << store, now, local_file, runs, notified, start_store,
                  start_local, history, resp >>

\* Line 42: s3.list_buckets().
ListBuckets ==
  /\ pc = "list_buckets"
  /\ buckets' = Buckets
  /\ pc' = "bucket_sizes"
  /\ UNCHANGED << store, now, local_file, runs, error, bucket_data, listing1,
                  listing2, two_level_paths, path_sizes, path_data,
                  csv_buffer, runtime_seconds, minio_path, over_quota, report,
                  notified, start_store, start_local, history, resp >>

ListBucketsFails == Raise("list_buckets", "list_buckets")

\* Lines 43-51: one bucket of the loop, its listing drawn from L.
BucketSize(L) ==
  /\ pc = "bucket_sizes"
  /\ \E listing \in L :
       bucket_data' =
         Append(bucket_data,
                BucketRow(buckets[Len(bucket_data) + 1], SumSizes(listing)))
  /\ pc' = IF Len(bucket_data) + 1 = Len(buckets) THEN "pass1"
           ELSE "bucket_sizes"
  /\ UNCHANGED << store, now, local_file, runs, error, buckets, listing1,
                  listing2, two_level_paths, path_sizes, path_data,
                  csv_buffer, runtime_seconds, minio_path, over_quota, report,
                  notified, start_store, start_local, history, resp >>

BucketSizeFails == Raise("bucket_sizes", "list_objects")

\* Lines 57-64: the first pass over cdm-lake.
Pass1(L) ==
  /\ pc = "pass1"
  /\ \E listing \in L :
       /\ listing1' = listing
       /\ two_level_paths' = CollectPaths(listing)
  /\ pc' = "pass2"
  /\ UNCHANGED << store, now, local_file, runs, error, buckets, bucket_data,
                  listing2, path_sizes, path_data, csv_buffer,
                  runtime_seconds, minio_path, over_quota, report, notified,
                  start_store, start_local, history, resp >>

Pass1Fails == Raise("pass1", "list_pass1")

\* Lines 67-76: the second pass over cdm-lake.
Pass2(L) ==
  /\ pc = "pass2"
  /\ \E listing \in L :
       /\ listing2' = listing
       /\ path_sizes' = AddSizes([p \in two_level_paths |-> 0], listing)
  /\ pc' = "path_data"
  /\ UNCHANGED << store, now, local_file, runs, error, buckets, bucket_data,
                  listing1, two_level_paths, path_data, csv_buffer,
                  runtime_seconds, minio_path, over_quota, report, notified,
                  start_store, start_local, history, resp >>

\* As Pass2Fails, were the error of the listing caught and the run continued
\* with the sizes it has.
Pass2FailsCaught ==
  /\ pc = "pass2"
  /\ error' = "list_pass2"
  /\ path_sizes' = [p \in two_level_paths |-> 0]
  /\ pc' = "path_data"
  /\ UNCHANGED << store, now, local_file, runs, buckets, bucket_data,
                  listing1, listing2, two_level_paths, path_data, csv_buffer,
                  runtime_seconds, minio_path, over_quota, report, notified,
                  start_store, start_local, history, resp >>

Pass2Fails == Raise("pass2", "list_pass2")

\* Lines 79-93.
PathData ==
  /\ pc = "path_data"
  /\ path_data' = PathRows(path_sizes)
  /\ pc' = "csv"
  /\ UNCHANGED << store, now, local_file, runs, error, buckets, bucket_data,
                  listing1, listing2, two_level_paths, path_sizes, csv_buffer,
                  runtime_seconds, minio_path, over_quota, report, notified,
                  start_store, start_local, history, resp >>

\* Lines 96-118: the csv buffer, and the run time measured.
WriteCsv ==
  /\ pc = "csv"
  /\ csv_buffer' = CsvText(bucket_data, path_data)
  /\ runtime_seconds' \in 0..MaxDuration
  /\ pc' = "local"
  /\ UNCHANGED << store, now, local_file, runs, error, buckets, bucket_data,
                  listing1, listing2, two_level_paths, path_sizes, path_data,
                  minio_path, over_quota, report, notified, start_store,
                  start_local, history, resp >>

\* Lines 121-125: the local file.
LocalWrite ==
  /\ pc = "local"
  /\ local_file' = << "text", csv_buffer >>
  /\ pc' = "put"
  /\ UNCHANGED << store, now, runs, error, runvars, start_store, start_local,
                  history, resp >>

\* open() or write() raises (a read-only directory, a full disk).
LocalWriteFails == Raise("local", "local_write")

\* Lines 128-143: the upload.
Upload ==
  /\ pc = "put"
  /\ minio_path' = MinioPath(DayOf(now), runtime_seconds)
  /\ now' = now + 1
  /\ store' = PutObject(store, minio_path', csv_buffer, now')
  /\ pc' = "quota"
  /\ UNCHANGED << local_file, runs, error, buckets, bucket_data, listing1,
                  listing2, two_level_paths, path_sizes, path_data,
                  csv_buffer, runtime_seconds, over_quota, report, notified,
                  start_store, start_local, history, resp >>

UploadFails == Raise("put", "put_object")

\* Lines 146-174: the quota check and its printed report.
QuotaCheck ==
  /\ pc = "quota"
  /\ over_quota' = LiveOverQuota(path_data)
  /\ report' = Report(over_quota')
  /\ history' = Append(history,
                       [name |-> minio_path,
                        last_modified |-> store[minio_path].last_modified,
                        report |-> report'])
  /\ pc' = "slack"
  /\ UNCHANGED << store, now, local_file, runs, error, buckets, bucket_data,
                  listing1, listing2, two_level_paths, path_sizes, path_data,
                  csv_buffer, runtime_seconds, minio_path, notified,
                  start_store, start_local, resp >>

\* Lines 180-198: the message is posted.
SlackPosted ==
  /\ pc = "slack"
  /\ notified' = "posted"
  /\ pc' = "done"
  /\ Exit
  /\ UNCHANGED << store, now, local_file, runs, error, start_store,
                  start_local, history, resp >>

\* Lines 199-200: chat_postMessage raises SlackApiError, which is logged.
SlackApiErrorLogged ==
  /\ pc = "slack"
  /\ notified' = "logged"
  /\ pc' = "done"
  /\ Exit
  /\ UNCHANGED << store, now, local_file, runs, error, start_store,
                  start_local, history, resp >>

\* chat_postMessage raises anything else (no connection, a timeout): the
\* except clause names SlackApiError alone.
SlackOtherError == Raise("slack", "slack")

(***************************************************************************)
(* The viewer and the standalone check, between batch runs: each request   *)
(* is answered from the backend as it is, and the answer is then delivered.*)
(***************************************************************************)
\* The limits asked for: the least, the default and the greatest.
Limits == {1, DefaultLimit, MaxLimit}

\* GET /api/files?limit=n (app.py 87-90).
ListFiles ==
  /\ AtRest /\ Quiet
  /\ \E limit \in Limits :
       resp' = [kind |-> "files", limit |-> limit,
                files |-> get_metrics_files(store, limit)]
  /\ UNCHANGED << store, now, local_file, runs, pc, error, runvars,
                  start_store, start_local, history >>

\* GET /api/csv?file=f (app.py 75-84).
GetCsv ==
  /\ AtRest /\ Quiet
  /\ \E file \in DOMAIN store \cup {MissingName, << >>} :
       resp' = [kind |-> "csv", file |-> file,
                response |-> get_csv(store, file)]
  /\ UNCHANGED << store, now, local_file, runs, pc, error, runvars,
                  start_store, start_local, history >>

\* manual_test/quota.py is run; its message is posted, its SlackApiError is
\* logged, or another exception ends it (lines 90-105).
Standalone ==
  /\ AtRest /\ Quiet
  /\ \E r \in {StandaloneCheck(store)} :
       \E slack \in {"posted", "logged", "raised"} :
          resp' = [kind |-> "standalone", outcome |-> r.outcome,
                   latest |-> r.latest, report |-> r.report,
                   slack |-> IF r.outcome = "report" THEN slack ELSE "no"]
  /\ UNCHANGED << store, now, local_file, runs, pc, error, runvars,
                  start_store, start_local, history >>

\* The answer has reached the client.
Delivered ==
  /\ ~Quiet
  /\ resp' = NoResp
  /\ UNCHANGED << store, now, local_file, runs, pc, error, runvars,
                  start_store, start_local, history >>

RunStep(L, T, maxRuns) ==
  \/ Start(maxRuns)
  \/ ListBuckets
  \/ ListBucketsFails
  \/ BucketSize(T)
  \/ BucketSizeFails
  \/ Pass1(L)
  \/ Pass1Fails
  \/ Pass2(L)
  \/ Pass2Fails
  \/ PathData
  \/ WriteCsv
  \/ LocalWrite
  \/ LocalWriteFails
  \/ Upload
  \/ UploadFails
  \/ QuotaCheck
  \/ SlackPosted
  \/ SlackApiErrorLogged
  \/ SlackOtherError

Next ==
  \/ RunStep(FewListings, TotalListings, MaxRuns)
  \/ ListFiles
  \/ GetCsv
  \/ Standalone
  \/ Delivered

Spec == Init /\ [][Next]_vars

\* One run up to its path rows, over every listing of the objects.
NextAgg ==
  \/ Start(1)
  \/ ListBuckets
  \/ BucketSize(TotalListings)
  \/ Pass1(AllListings)
  \/ Pass2(AllListings)
  \/ PathData

SpecAgg == Init /\ [][NextAgg]_vars

(***************************************************************************)
(* Properties.  What they need beyond the operators of the program is      *)
(* defined here, from the words of the property and not from the program.  *)
(***************************************************************************)
\* The two-level key of an object name: the name up to its second "/", the
\* whole name when it has fewer than two.
KeyOf(name) ==
  LET slashes == {i \in 1..Len(name) : name[i] = "/"}
  IN IF Cardinality(slashes) < 2 THEN name
     ELSE LET second ==
                CHOOSE i \in slashes :
                  Cardinality({j \in slashes : j < i}) = 1
          IN SubSeq(name, 1, second - 1)

\* The sizes of the objects of a listing at the indices S, summed.
RECURSIVE SumAt(_, _)
SumAt(S, listing) ==
  IF S = {} THEN 0
  ELSE LET i == CHOOSE j \in S : TRUE
       IN listing[i].size + SumAt(S \ {i}, listing)

\* The key of a path row: its path without "cdm-lake/".
RowKey(row) == SubSeq(row.path, Len(bucket_name) + 2, Len(row.path))

Discovered == {KeyOf(listing1[i].object_name) : i \in 1..Len(listing1)}

MapsTo(key) ==
  {j \in 1..Len(listing2) : KeyOf(listing2[j].object_name) = key}

\* C1: when the path rows of a run are made, for whatever the two passes
\* were given, there is exactly one row per two-level key discovered in pass
\* one and no other row, each row's size_bytes is the sum of the sizes of the
\* pass-two objects whose key is the row's, and the sizes of all rows add up
\* to the sizes of the pass-two objects whose key was discovered: an object
\* whose key was not discovered adds to no row.
C1_TwoPassAggregation ==
  pc = "csv" =>
    /\ \A i \in 1..Len(path_data) :
         StartsWith(path_data[i].path, bucket_name \o << "/" >>)
    /\ {RowKey(path_data[i]) : i \in 1..Len(path_data)} = Discovered
    /\ Len(path_data) = Cardinality(Discovered)
    /\ \A i \in 1..Len(path_data) :
         path_data[i].size_bytes = SumAt(MapsTo(RowKey(path_data[i])), listing2)
    /\ SumAt(1..Len(path_data), [i \in 1..Len(path_data) |->
                                   [size |-> path_data[i].size_bytes]])
         = SumAt({j \in 1..Len(listing2) :
                    KeyOf(listing2[j].object_name) \in Discovered}, listing2)

\* The rows are made from passes that differ: an object of pass two has a
\* key pass one did not discover, a discovered key has two objects in pass
\* two, and another discovered key has none.
C1_Witness ==
  /\ pc = "csv"
  /\ \E j \in 1..Len(listing2) :
       KeyOf(listing2[j].object_name) \notin Discovered
  /\ \E i \in 1..Len(path_data) :
       Cardinality(MapsTo(RowKey(path_data[i]))) = 2
  /\ \E i \in 1..Len(path_data) :
       MapsTo(RowKey(path_data[i])) = {} /\ path_data[i].size_bytes = 0

\* The snapshots of the batch runs: the .csv objects directly under metrics/.
Snapshots(objects) ==
  {k \in DOMAIN objects :
     /\ StartsWith(k, metrics_prefix)
     /\ EndsWith(k, csv_suffix)
     /\ ~Contains(SubSeq(k, Len(metrics_prefix) + 1, Len(k)), "/")}

\* C2: no step changes a snapshot that is stored: every snapshot a run has
\* persisted stays, with the content that run wrote, whatever runs follow,
\* two runs of the same date and the same whole seconds of duration included.
C2_SnapshotsAppendOnly ==
  [][\A k \in Snapshots(store) :
       k \in DOMAIN store' /\ store'[k].content = store[k].content]_vars

ListingErrors == {"list_buckets", "list_objects", "list_pass1", "list_pass2"}

\* C3: a run in which a listing call of the backend failed (list_buckets, the
\* listing of a bucket, or either pass over cdm-lake) has ended with that
\* error, and has written neither the local file nor an object, so that every
\* snapshot stored before it is as it was, and has posted no notification.
C3_ListingFailureAborts ==
  error \in ListingErrors =>
    /\ pc = "aborted"
    /\ store = start_store
    /\ local_file = start_local
    /\ notified = "no"

\* The second pass of a second run fails, after a first run has stored its
\* snapshot and written the local file.
C3_Witness ==
  /\ pc = "aborted"
  /\ error = "list_pass2"
  /\ runs = 2
  /\ Snapshots(store) # {}
  /\ local_file # << "absent" >>

\* C4: a failure of the local write does not end the run: no run is aborted
\* by it.
C4_LocalWriteNonFatal == error = "local_write" => pc # "aborted"

\* C5: no failure of posting the notification ends the run abnormally.
C5_NotificationFailureCaught == error = "slack" => pc # "aborted"

\* rep is the quota report of the rows items, each a path and its size_gb:
\* one line per row whose path has a "/" and whose size_gb is strictly above
\* QUOTA_GB and no other line, each line with the row's overage, the lines
\* in descending size.
IsQuotaReport(rep, items) ==
  LET violations ==
        {i \in 1..Len(items) :
           /\ \E c \in 1..Len(items[i].path) : items[i].path[c] = "/"
           /\ items[i].size_gb.num > QUOTA_GB * items[i].size_gb.den}
  IN /\ Len(rep) = Cardinality(violations)
     /\ \A i \in violations :
          \E j \in 1..Len(rep) :
            /\ rep[j].path = items[i].path
            /\ rep[j].overage.den = items[i].size_gb.den
            /\ rep[j].overage.num
                 = items[i].size_gb.num - QUOTA_GB * items[i].size_gb.den
     /\ \A j, k \in 1..Len(rep) :
          j < k => rep[j].overage.num >= rep[k].overage.num

\* The rows of a stored snapshot as the standalone check reads them.
StoredItems(rows) ==
  [i \in 1..Len(rows) |->
     [path |-> rows[i][path_field],
      size_gb |-> Float(ParseFloat(rows[i][size_gb_field]), UnitsPerGB)]]

\* C6: the report of the quota check, in a batch run over its path rows and
\* in the standalone check over the rows of the snapshot it read, has a line
\* for a row if and only if the row's path has a "/" and its size_gb is
\* strictly above the threshold; the lines are in descending size_gb, each
\* with the overage size_gb - threshold.
C6_QuotaEvaluation ==
  /\ pc = "slack" => IsQuotaReport(report, path_data)
  /\ (resp.kind = "standalone" /\ resp.outcome = "report") =>
       IsQuotaReport(resp.report,
                     StoredItems(read_csv_from_minio(store, resp.latest).rows))

\* The standalone check reports two paths in another order than their rows
\* have, from a snapshot whose bucket row for cdm-lake is above the threshold.
C6_Witness ==
  /\ resp.kind = "standalone"
  /\ resp.outcome = "report"
  /\ Len(resp.report) = 2
  /\ LET items == StoredItems(read_csv_from_minio(store, resp.latest).rows)
     IN /\ \E i \in 1..Len(items) :
             /\ items[i].path = bucket_name
             /\ items[i].size_gb.num > QUOTA_GB * items[i].size_gb.den
        /\ \E i, j \in 1..Len(items) :
             /\ i < j
             /\ items[i].path = resp.report[2].path
             /\ items[j].path = resp.report[1].path

Min(a, b) == IF a < b THEN a ELSE b

\* files is the min(limit, n) most recently modified of the n objects named
\* in S, in descending last_modified, with nothing else.
MostRecentOf(files, S, limit) ==
  /\ Len(files) = Min(limit, Cardinality(S))
  /\ \A i \in 1..Len(files) : files[i].name \in S
  /\ \A i, j \in 1..Len(files) :
       i < j =>
         /\ files[i].name # files[j].name
         /\ store[files[i].name].last_modified
              >= store[files[j].name].last_modified
  /\ \A k \in S :
       (\A i \in 1..Len(files) : files[i].name # k) =>
         \A i \in 1..Len(files) :
           store[k].last_modified <= store[files[i].name].last_modified

\* C7: get_metrics_files(limit), limit in 1..20, returns the min(limit, n)
\* most recently modified of the n objects that lie directly under metrics/
\* (no "/" after the prefix) and whose name ends in .csv, in descending
\* last_modified, and no object outside the prefix or without the suffix.
C7_RecentDirectCsv ==
  resp.kind = "files" => MostRecentOf(resp.files, Snapshots(store), resp.limit)

\* C7 as stated, over every object under metrics/ whose name ends in .csv.
C7_RecentAnyCsv ==
  resp.kind = "files" =>
    MostRecentOf(resp.files,
                 {k \in DOMAIN store :
                    StartsWith(k, metrics_prefix) /\ EndsWith(k, csv_suffix)},
                 resp.limit)

\* One file is asked for where two snapshots are stored.
C7_Witness ==
  /\ resp.kind = "files"
  /\ resp.limit = 1
  /\ Cardinality(Snapshots(store)) = 2
  /\ Len(resp.files) = 1

\* The rows a run writes: a row per bucket, then its path rows.
WrittenRows ==
  [i \in 1..Len(bucket_data) |-> BucketCsvRow(bucket_data[i])] \o path_data

\* C8: once a run has stored its snapshot, read_csv_from_minio of the
\* snapshot's name returns the rows the run wrote, as many and in the same
\* order: the bucket rows first, in the order the backend listed the buckets,
\* then the path rows in strictly ascending lexicographic order of path, each
\* row with the five fields and the text written for each.
C8_RoundTrip ==
  pc \in {"quota", "slack"} =>
    LET r == read_csv_from_minio(store, minio_path)
    IN /\ r.raised = "no"
       /\ Len(r.rows) = Len(WrittenRows)
       /\ \A i \in 1..Len(r.rows) :
            /\ DOMAIN r.rows[i] = {fieldnames[j] : j \in 1..Len(fieldnames)}
            /\ \A j \in 1..Len(fieldnames) :
                 r.rows[i][fieldnames[j]] = RowFields(WrittenRows[i])[j]
       /\ \A i \in 1..Len(buckets) : r.rows[i][path_field] = buckets[i]
       /\ \A i \in (Len(buckets) + 1)..Len(r.rows) :
            /\ RowKey([path |-> r.rows[i][path_field]]) \in two_level_paths
            /\ \A j \in (i + 1)..Len(r.rows) :
                 StrLess(r.rows[i][path_field], r.rows[j][path_field])

\* A snapshot is stored that has three path rows, one of a path with a comma
\* and a double quote.
C8_Witness ==
  /\ pc = "quota"
  /\ Len(path_data) = 3
  /\ \E i \in 1..Len(path_data) :
       /\ \E c \in 1..Len(path_data[i].path) : path_data[i].path[c] = "\""
       /\ \E c \in 1..Len(path_data[i].path) : path_data[i].path[c] = ","

\* C9: a request for the rows of a name that no object has, or of an object
\* whose content cannot be decoded or parsed, is answered with a not-found or
\* bad-request status, and with no rows.
C9_FetchErrorResponse ==
  (/\ resp.kind = "csv"
   /\ resp.file # << >>
   /\ read_csv_from_minio(store, resp.file).raised # "no") =>
    /\ resp.response.status \in {400, 404}
    /\ resp.response.rows = << >>

Paths(rep) == [i \in 1..Len(rep) |-> rep[i].path]

====
